---------------------------- MODULE Spec2Model ----------------------------
(***************************************************************************)
(* Oil Analyzer (app.py): the TTL cache, the five fetchers, run_once, the  *)
(* summary formatter, send_telegram and the HTTP routes.                   *)
(*                                                                         *)
(* Python values are modelled as follows.  A dict is a function whose      *)
(* DOMAIN is its key set, None is the distinguished record None, an        *)
(* optional number is None or Some(n).  Time is in whole seconds since the *)
(* process started; prices are in cents and percentages in hundredths of a *)
(* percent.                                                                *)
(***************************************************************************)
EXTENDS Integers, Sequences, FiniteSets, TLC

VARIABLES
    CACHE,   \* app.py CACHE: key -> [ts, ttl, data]; DOMAIN = the keys present
    now,     \* datetime.now(timezone.utc), seconds
    env,     \* the environment read at import: which keys/tokens are set
    run,     \* the run_once invocation in progress (pc, mode, chat_id, payload)
    ret,     \* what the last completed call returned, and what it did
    hist,    \* for each key, the arguments and time of the last direct set_cache
    nCalls,  \* number of calls made so far
    nTicks   \* number of clock advances so far

vars == <<CACHE, now, env, run, ret, hist, nCalls, nTicks>>

-----------------------------------------------------------------------------
(* Bounds of the model. *)

MaxCalls    == 2    \* fetcher calls per behaviour of Spec
MaxTicks    == 1    \* clock advances per behaviour of Spec
MaxRequests == 1    \* HTTP requests per behaviour of SpecRun, SpecHook, SpecLive
MaxTTL      == 2    \* largest ttl of a set_cache of SpecCache
MaxNow      == 3    \* last instant of the clock of SpecCache

-----------------------------------------------------------------------------
(* Python values. *)

None == [None |-> TRUE]

Some(n) == [some |-> n]

EmptyDict == [k \in {} |-> None]

\* bool(x) of a dict-or-None value
Truthy(x) == x # None /\ DOMAIN x # {}

\* `key in d` for a dict d
HasKey(d, key) == d # None /\ key \in DOMAIN d

\* d.get(key), with None for a missing key
Get(d, key) == IF HasKey(d, key) THEN d[key] ELSE None

-----------------------------------------------------------------------------
(* ====== cache ====== *)

Keys == {"eia", "baker", "cftc", "fred", "prices"}

\* CACHE.get(key)
CacheRow(C, key) == IF key \in DOMAIN C THEN C[key] ELSE None

\* the mutant of Expired: the boundary instant counts as expired
ExpiredAtBoundary(row, t) == t >= row.ts + row.ttl

\* datetime.now(timezone.utc) > row["ts"] + timedelta(seconds=row["ttl"])
Expired(row, t) == t > row.ts + row.ttl

get_cache(C, key, t) ==
    LET row == CacheRow(C, key) IN
    IF ~Truthy(row) THEN None
    ELSE IF Expired(row, t) THEN None
    ELSE row.data

\* the mutant of set_cache: a row already present is kept (dict.setdefault)
set_cache_if_absent(C, key, data, ttl_sec, t) ==
    IF key \in DOMAIN C THEN C
    ELSE [k \in DOMAIN C \cup {key} |->
            IF k = key THEN [data |-> data, ts |-> t, ttl |-> ttl_sec] ELSE C[k]]

set_cache(C, key, data, ttl_sec, t) ==
    [k \in DOMAIN C \cup {key} |->
        IF k = key THEN [ts |-> t, ttl |-> ttl_sec, data |-> data] ELSE C[k]]


-----------------------------------------------------------------------------
(* Exceptions.  A raising expression evaluates to Exc(type); a try/except  *)
(* replaces it by what the handler yields.                                  *)

Exc(type) == [exc |-> type]

IsExc(x) == HasKey(x, "exc")

\* the mutant of Catch: no except clause, the exception propagates
NoCatch(v, handled) == v

\* try: v  except Exception: handled
Catch(v, handled) == IF IsExc(v) THEN handled ELSE v

\* an error-tagged result: a dict carrying "error"
Err(msg) == [error |-> msg]

IsErr(x) == HasKey(x, "error")

-----------------------------------------------------------------------------
(* What an upstream can answer to one request. *)

\* requests.get raises: unreachable host, timeout
Down == [kind |-> "down"]

\* a body that is not what the fetcher parses: .json() raises, a field is missing
Malformed == [kind |-> "malformed"]

\* the environment the module reads at import (lines 26-30)
Env(eia, fred, openai, token, chat) ==
    [EIA_API_KEY |-> eia, FRED_API_KEY |-> fred, OPENAI_API_KEY |-> openai,
     TELEGRAM_BOT_TOKEN |-> token, TELEGRAM_CHAT_ID |-> chat]

\* everything set; nothing set; the data keys and the bot token, no chat id
Envs ==
    {Env(TRUE, TRUE, TRUE, TRUE, "777"), Env(FALSE, FALSE, FALSE, FALSE, ""),
     Env(TRUE, TRUE, FALSE, TRUE, "")}

-----------------------------------------------------------------------------
(* ====== EIA ====== *)

EIA_TTL == 21600

EIARecord(desc, v, period) == [desc |-> desc, value |-> v, period |-> period]

\* the "data" list of the JSON body: none, records of no known series, weekly data
EIARecordLists ==
    {<<>>,
     <<EIARecord("Ending Stocks", 420001, "w1"), EIARecord("Refinery Inputs", 1, "w1"),
       EIARecord("Production", 401, "w1")>>}

EIAResponses == {Down, Malformed} \cup {[kind |-> "json", records |-> r] : r \in EIARecordLists}

\* the key the loop of lines 127-136 files a series description under
EIASeriesKey(desc) ==
    CASE desc = "Ending Stocks" -> "stocks"
      [] desc = "Imports" -> "imports"
      [] desc = "Production" -> "production"
      [] OTHER -> "none"

\* data of lines 126-136: for each known series the value of its last record
EIAData(records) ==
    LET idx(k) == {i \in 1..Len(records) : EIASeriesKey(records[i].desc) = k}
        last(k) == CHOOSE i \in idx(k) : \A j \in idx(k) : j <= i
    IN  [k \in {k \in {"stocks", "imports", "production"} : idx(k) # {}} |->
            records[last(k)].value]

\* the try block of get_eia_weekly, lines 110-180
eia_try(C, t, resp) ==
    IF resp.kind = "down" THEN [value |-> Exc("RequestException"), cache |-> C]
    ELSE IF resp.kind = "malformed" THEN [value |-> Exc("ValueError"), cache |-> C]
    ELSE IF resp.records = <<>>
        THEN [value |-> Err("No EIA Crude Oil records found"), cache |-> C]
    ELSE LET data == EIAData(resp.records)
             period == resp.records[1].period
             result == [period |-> period, raw |-> data,
                        report |-> [period |-> period, lines |-> DOMAIN data]]
         IN  [value |-> result, cache |-> set_cache(C, "eia", result, EIA_TTL, t)]

get_eia_weekly(C, t, e, resp) ==
    IF ~e.EIA_API_KEY
        THEN [value |-> Err("EIA_API_KEY missing"), cache |-> C, net |-> 0]
    ELSE LET cached == get_cache(C, "eia", t) IN
         IF Truthy(cached) THEN [value |-> cached, cache |-> C, net |-> 0]
         ELSE LET r == eia_try(C, t, resp) IN
              [value |-> Catch(r.value, Err("EIA fetch error")),
               cache |-> r.cache, net |-> 1]

-----------------------------------------------------------------------------
(* ====== Baker Hughes ====== *)

BAKER_TTL == 86400

\* a page: its text and the U.S. delta the regex of line 226 finds in it, if any
BakerPage(text, delta) == [kind |-> "html", text |-> text, us_delta |-> delta]

BakerResponses ==
    {Down, BakerPage("", None), BakerPage("U.S. 17 Oct 2025 548 +1", Some(1))}

\* lines 242-250
BakerSentiment(delta) ==
    IF delta # None
        THEN (IF delta.some > 0 THEN "bearish"
              ELSE IF delta.some < 0 THEN "bullish" ELSE "neutral")
        ELSE "neutral: no delta"

\* the try block of get_baker_hughes, lines 200-260
baker_try(resp) ==
    IF resp.kind = "down" THEN Exc("RequestException")
    ELSE [snippet |-> resp.text, source |-> "Baker Hughes (Rig Count)",
          us_delta |-> resp.us_delta, sentiment |-> BakerSentiment(resp.us_delta)]

get_baker_hughes(C, t, resp) ==
    LET cached == get_cache(C, "baker", t) IN
    IF Truthy(cached) THEN [value |-> cached, cache |-> C, net |-> 0]
    ELSE LET out == Catch(baker_try(resp), Err("baker"))
         IN  [value |-> out, cache |-> set_cache(C, "baker", out, BAKER_TTL, t), net |-> 1]

-----------------------------------------------------------------------------
(* ====== CFTC ====== *)

CFTC_TTL == 86400

\* the section names lines 273-282 look for
CFTC_KEYS ==
    <<"WTI-PHYSICAL", "WTI FINANCIAL CRUDE OIL", "BRENT LAST DAY", "GASOLINE RBOB",
      "NY HARBOR ULSD", "WTI HOUSTON ARGUS/WIT TR MO", "WTI MIDLAND ARGUS VS WTI TRADE",
      "USGC HSFO (PLATTS)">>

\* a page: the sequence of the section titles of its text
CFTCPage(titles) == [kind |-> "html", titles |-> titles]

CFTCResponses ==
    {Down, CFTCPage(<<"NATURAL GAS">>), CFTCPage(<<"BRENT LAST DAY", "WTI-PHYSICAL">>)}

InText(key, txt) == \E i \in 1..Len(txt) : txt[i] = key

\* the blocks around the keys found in the text, in the order of CFTC_KEYS;
\* <<>> is the "" the code returns when it finds none
_cftc_extract(txt) == SelectSeq(CFTC_KEYS, LAMBDA key : InText(key, txt))

NoSections == <<"No petroleum sections parsed.">>

\* one url of the loop, lines 306-315: the inner try, and its except: continue
cftc_chunk(resp) ==
    Catch(IF resp.kind = "down" THEN Exc("RequestException")
          ELSE [chunk |-> _cftc_extract(resp.titles)],
          [chunk |-> <<>>])

\* the outer try block, lines 305-317: the snippet joins the chunks found
cftc_try(r1, r2) ==
    LET c1 == cftc_chunk(r1)
        c2 == cftc_chunk(r2)
    IN  IF IsExc(c1) THEN c1
        ELSE IF IsExc(c2) THEN c2
        ELSE LET res == c1.chunk \o c2.chunk
             IN  [snippet |-> IF res # <<>> THEN res ELSE NoSections,
                  source |-> "CFTC Disaggregated (Fut/Fut+Opt)"]

get_cftc(C, t, r1, r2) ==
    LET cached == get_cache(C, "cftc", t) IN
    IF Truthy(cached) THEN [value |-> cached, cache |-> C, net |-> 0]
    ELSE LET out == Catch(cftc_try(r1, r2), Err("cftc"))
         IN  [value |-> out, cache |-> set_cache(C, "cftc", out, CFTC_TTL, t), net |-> 2]

-----------------------------------------------------------------------------
(* ====== FRED ====== *)

FRED_TTL == 43200

FREDResponses == {Down, Malformed, [kind |-> "json", value |-> 3, date |-> "m1"]}

\* http_get(u).json()["observations"][-1], then float(obs["value"]) and obs["date"]
fred_obs(resp) ==
    IF resp.kind = "down" THEN Exc("RequestException")
    ELSE IF resp.kind = "malformed" THEN Exc("KeyError")
    ELSE [value |-> resp.value, date |-> resp.date]

\* the try block of get_fred, lines 331-337
fred_try(C, t, r1, r2) ==
    LET cpi == fred_obs(r1)
        rate == fred_obs(r2)
    IN  IF IsExc(cpi) THEN [value |-> cpi, cache |-> C, net |-> 1]
        ELSE IF IsExc(rate) THEN [value |-> rate, cache |-> C, net |-> 2]
        ELSE LET out == [CPI |-> cpi.value, CPI_date |-> cpi.date,
                         FedRate |-> rate.value, Rate_date |-> rate.date]
             IN  [value |-> out, cache |-> set_cache(C, "fred", out, FRED_TTL, t), net |-> 2]

get_fred(C, t, e, r1, r2) ==
    IF ~e.FRED_API_KEY
        THEN [value |-> Err("FRED_API_KEY missing"), cache |-> C, net |-> 0]
    ELSE LET cached == get_cache(C, "fred", t) IN
         IF Truthy(cached) THEN [value |-> cached, cache |-> C, net |-> 0]
         ELSE LET r == fred_try(C, t, r1, r2) IN
              [value |-> Catch(r.value, Err("fred")), cache |-> r.cache, net |-> r.net]

-----------------------------------------------------------------------------
(* ====== Yahoo Finance (WTI & DXY) ====== *)

PRICES_TTL == 600

\* n/d rounded to the nearest integer, ties to the even one (Python's round)
RoundDiv(n, d) ==
    LET nn == IF d < 0 THEN -n ELSE n
        dd == IF d < 0 THEN -d ELSE d
        q == nn \div dd
        r == nn - q * dd
    IN  IF 2 * r < dd THEN q
        ELSE IF 2 * r > dd THEN q + 1
        ELSE IF q % 2 = 0 THEN q ELSE q + 1

\* the closes (thousandths of a dollar) of the frame a ticker's lookup ends with,
\* history's or, when that one is empty, download's; oldest first
Frames == {<<>>, <<60000, 61235>>}

\* yfinance raises, or answers a frame
TickerResponses == {Exc("YFError")} \cup {[rows |-> f] : f \in Frames}

\* a lookup get_prices does not make
NotAsked == [kind |-> "not asked"]

\* the try block of _last_close_series, lines 348-356, and the fall-through
last_close_try(resp) ==
    IF IsExc(resp) THEN resp
    ELSE LET h == resp.rows
             n == Len(h)
         IN  IF n >= 2 THEN [last |-> Some(h[n]), prev |-> Some(h[n - 1])]
             ELSE IF n = 1 THEN [last |-> Some(h[1]), prev |-> Some(h[1])]
             ELSE [last |-> None, prev |-> None]

_last_close_series(resp) == Catch(last_close_try(resp), [last |-> None, prev |-> None])

\* round(x, 2) of a price, in cents
Round2(x) == RoundDiv(x, 10)

\* round((last - prev) / prev * 100, 2) if prev else 0.0, in hundredths of a percent
Change(last, prev) == IF prev # 0 THEN RoundDiv((last - prev) * 10000, prev) ELSE 0

\* line 390: (out["WTI"] is None and out["DXY"] is None) and cached
PricesFallback(C, out, cached) == (out.WTI = None /\ out.DXY = None) /\ Truthy(cached)

get_prices(C, t, rw, r1, r2, r3) ==
    LET cached == get_cache(C, "prices", t) IN
    IF Truthy(cached) THEN [value |-> cached, cache |-> C, net |-> 0]
    ELSE
    LET w == _last_close_series(rw)
        d1 == _last_close_series(r1)
        ask2 == ~IsExc(d1) /\ d1.last = None
        d2 == IF ask2 THEN _last_close_series(r2) ELSE d1
        ask3 == ~IsExc(d2) /\ d2.last = None
        d == IF ask3 THEN _last_close_series(r3) ELSE d2
        net == 2 + (IF ask2 THEN 1 ELSE 0) + (IF ask3 THEN 1 ELSE 0)
    IN  IF IsExc(w) THEN [value |-> w, cache |-> C, net |-> 1]
        ELSE IF IsExc(d) THEN [value |-> d, cache |-> C, net |-> net]
        ELSE
        LET hasW == w.last # None /\ w.prev # None
            hasD == d.last # None /\ d.prev # None
            out == [WTI |-> IF hasW THEN Some(Round2(w.last.some)) ELSE None,
                    WTI_change |-> IF hasW THEN Some(Change(w.last.some, w.prev.some))
                                   ELSE None,
                    DXY |-> IF hasD THEN Some(Round2(d.last.some)) ELSE None,
                    DXY_change |-> IF hasD THEN Some(Change(d.last.some, d.prev.some))
                                   ELSE None,
                    source |-> "Yahoo Finance"]
        IN  IF PricesFallback(C, out, cached)
                THEN [value |-> cached, cache |-> C, net |-> net]
                ELSE [value |-> out, cache |-> set_cache(C, "prices", out, PRICES_TTL, t),
                      net |-> net]

-----------------------------------------------------------------------------
(* ====== formatting ====== *)

NA == [text |-> "N/A"]

\* _num(x): "N/A" when float(x) raises (x is None), else x with nd decimals.
\* x is d.get(key), a number wherever the key is present
_num(d, key) == IF HasKey(d, key) THEN [number |-> d[key], nd |-> 2] ELSE NA

\* _num of an optional number
_num_opt(x) == IF x = None THEN NA ELSE [number |-> x.some, nd |-> 2]

\* _pct(x): "+0.00%" when float(x) raises
_pct(x) == IF x = None THEN [percent |-> 0, nd |-> 2] ELSE [percent |-> x.some, nd |-> 2]

-----------------------------------------------------------------------------
(* ====== telegram ====== *)

\* what api.telegram.org answers to sendMessage: 200, an error status, nothing
TelegramResponses == {[kind |-> "ok"], [kind |-> "rejected"], Down}

\* the try block of send_telegram, lines 84-92: r.ok
send_try(tg) == IF tg.kind = "down" THEN Exc("RequestException") ELSE [ok |-> tg.kind = "ok"]

\* chat_id is "" for None.  The result and whether a request was posted
send_telegram(e, html_text, chat_id, tg) ==
    IF ~e.TELEGRAM_BOT_TOKEN THEN [sent |-> FALSE, posted |-> FALSE]
    ELSE LET chat == IF chat_id # "" THEN chat_id ELSE e.TELEGRAM_CHAT_ID IN
         IF chat = "" THEN [sent |-> FALSE, posted |-> FALSE]
         ELSE LET r == Catch(send_try(tg), [ok |-> FALSE]) IN
              IF IsExc(r) THEN r ELSE [sent |-> r.ok, posted |-> TRUE]

-----------------------------------------------------------------------------
(* ====== AI, CFTC snapshot ====== *)

\* what re.findall(r"([\d\.]+)", snippet) can find in a snippet of report text:
\* nothing, three numbers (tenths), a first token float() rejects (".")
NumberTokens == {<<>>, <<Some(125), Some(301), Some(102)>>, <<None, Some(301), Some(102)>>}

\* analyze_cftc_snippet, lines 402-436; snippet is <<>> for ""
analyze_cftc_snippet(snippet, nums) ==
    IF snippet = <<>> THEN "CFTC: no data"
    ELSE IF Len(nums) < 3 THEN "CFTC: positions not extracted"
    ELSE IF nums[1] = None \/ nums[2] = None \/ nums[3] = None THEN "CFTC parsing error"
    ELSE LET diff == nums[2].some - nums[3].some IN
         IF diff > 100 THEN "CFTC Snapshot: Bullish"
         ELSE IF diff < -100 THEN "CFTC Snapshot: Bearish"
         ELSE "CFTC Snapshot: Neutral"

\* the numbers findall can find in this snippet: the placeholder holds no digit
TokensIn(snippet) == IF snippet \in {<<>>, NoSections} THEN {<<>>} ELSE NumberTokens

\* rule_based of gpt_analyze, lines 601-629: recommendation, target and stop (cents)
rule_based(prices) ==
    LET wti == Get(prices, "WTI")
        ch == Get(prices, "WTI_change")
        dxy == Get(prices, "DXY_change")
        score == (IF ch = None THEN 0 ELSE ch.some) - (IF dxy = None THEN 0 ELSE dxy.some)
        rec == IF wti = None THEN "NEUTRAL"
               ELSE IF score > 0 THEN "BUY" ELSE IF score < 0 THEN "SELL" ELSE "NEUTRAL"
        priced == wti # None /\ wti.some # 0
    IN  [rec |-> rec,
         price |-> IF priced THEN _num_opt(wti) ELSE NA,
         target |-> IF priced
                    THEN Some(RoundDiv(wti.some * (IF rec = "BUY" THEN 1018 ELSE 982), 1000))
                    ELSE None,
         stop |-> IF priced
                  THEN Some(RoundDiv(wti.some * (IF rec = "BUY" THEN 991 ELSE 1009), 1000))
                  ELSE None]

\* what the OpenAI call can do: raise, answer an empty text, answer a plan
AIResponses == {Down, [kind |-> "text", text |-> ""], [kind |-> "text", text |-> "plan"]}

\* the try block of gpt_analyze, lines 635-658
gpt_try(ai) ==
    IF ai.kind = "down" THEN Exc("APIError") ELSE [kind |-> "gpt", text |-> ai.text]

\* gpt_analyze, lines 596-660
gpt_analyze(e, payload, prices, ai) ==
    IF ~e.OPENAI_API_KEY THEN [kind |-> "rule_based", text |-> rule_based(prices)]
    ELSE Catch(gpt_try(ai), [kind |-> "gpt", text |-> "GPT error"])

\* bool(analysis): the rule-based text is never empty
AnalysisTruthy(analysis) == analysis.kind = "rule_based" \/ analysis.text # ""

-----------------------------------------------------------------------------
(* ====== FORMAT MAIN SUMMARY ====== *)

\* the names app.py defines at module level
Globals ==
    {"EIA_API_KEY", "FRED_API_KEY", "OPENAI_API_KEY", "TELEGRAM_BOT_TOKEN",
     "TELEGRAM_CHAT_ID", "REQUEST_TIMEOUT", "UA", "CACHE", "app", "utc_now", "http_get",
     "http_post", "get_cache", "set_cache", "_num", "_pct", "send_telegram",
     "get_eia_weekly", "get_baker_hughes", "CFTC_FUT", "CFTC_FOP", "CFTC_KEYS",
     "_cftc_extract", "get_cftc", "get_fred", "_last_close_series", "get_prices",
     "OPENAI_MODEL", "analyze_cftc_snippet", "gpt_analyze_cftc", "index", "health",
     "data_endpoint", "analyze_endpoint", "cron_daily", "fmt_prices", "telegram_webhook",
     "gpt_analyze", "fmt_summary", "run_once"}

\* x or {}
OrEmpty(x) == IF Truthy(x) THEN x ELSE EmptyDict

\* lines 697-707: the EIA sentiment from stocks and production
EIASentiment(raw) ==
    IF ~(HasKey(raw, "stocks") /\ HasKey(raw, "production")) THEN "Neutral: Data incomplete"
    ELSE IF raw.stocks > 820000 /\ raw.production > 400 THEN "Bearish"
    ELSE IF raw.stocks < 780000 /\ raw.production < 400 THEN "Bullish"
    ELSE "Neutral"

\* lines 666-682
fmt_baker_section(payload) ==
    LET baker == OrEmpty(Get(payload, "baker")) IN
    IF "fmt_baker" \in Globals THEN <<[section |-> "baker", body |-> "fmt_baker"]>>
    ELSE IF HasKey(baker, "snippet") /\ baker.snippet # ""
        THEN <<[section |-> "baker", snippet |-> baker.snippet,
                sentiment |-> Get(baker, "sentiment")]>>
    ELSE <<[section |-> "baker", unavailable |-> TRUE]>>

\* lines 685-716
fmt_eia_section(payload) ==
    LET eia == OrEmpty(Get(payload, "eia")) IN
    IF HasKey(eia, "raw")
        THEN <<[section |-> "eia", period |-> Get(eia, "period"),
                stocks |-> _num(eia.raw, "stocks"), imports |-> _num(eia.raw, "imports"),
                production |-> _num(eia.raw, "production"),
                sentiment |-> EIASentiment(eia.raw)]>>
        ELSE <<>>

\* lines 719-721
fmt_cftc_section(payload) ==
    IF HasKey(payload, "cftc_interpretation") /\ payload.cftc_interpretation # ""
        THEN <<[section |-> "cftc", text |-> payload.cftc_interpretation]>>
        ELSE <<>>

\* lines 724-730
fmt_fred_section(payload) ==
    LET fred == OrEmpty(Get(payload, "fred")) IN
    IF Truthy(fred)
        THEN <<[section |-> "fred", CPI |-> _num(fred, "CPI"), Fed |-> _num(fred, "FedRate")]>>
        ELSE <<>>

\* lines 733-739
fmt_prices_section(payload) ==
    LET pr == OrEmpty(Get(payload, "prices")) IN
    IF Truthy(pr)
        THEN <<[section |-> "prices",
                WTI |-> _num_opt(Get(pr, "WTI")), WTI_change |-> _pct(Get(pr, "WTI_change")),
                DXY |-> _num_opt(Get(pr, "DXY")), DXY_change |-> _pct(Get(pr, "DXY_change"))]>>
        ELSE <<>>

\* the message, as the sequence of its sections (the header's clock reading left out)
fmt_summary(payload, analysis) ==
    <<[section |-> "header"]>>
    \o fmt_baker_section(payload)
    \o fmt_eia_section(payload)
    \o fmt_cftc_section(payload)
    \o fmt_fred_section(payload)
    \o fmt_prices_section(payload)
    \o (IF AnalysisTruthy(analysis) THEN <<[section |-> "ai", analysis |-> analysis]>>
        ELSE <<>>)

\* the sections of a message
Sections(msg) == {msg[i].section : i \in 1..Len(msg)}

-----------------------------------------------------------------------------
(* How an upstream stood at a call: the answers it had for the requests of    *)
(* the fetcher, whether or not the fetcher made them.                        *)

IsDown(r) == IsExc(r) \/ (HasKey(r, "kind") /\ r.kind = "down")

\* unreachable: no request is answered; malformed: some are, none with usable data;
\* partial: some with usable data, not all; ok: all
UpClass(down, usable) ==
    IF \A i \in DOMAIN down : down[i] THEN "unreachable"
    ELSE IF \A i \in DOMAIN usable : ~usable[i] THEN "malformed"
    ELSE IF \A i \in DOMAIN usable : usable[i] THEN "ok"
    ELSE "partial"

EIAUsable(r) == r.kind = "json" /\ r.records # <<>>

BakerUsable(r) == r.kind = "html" /\ r.text # ""

CFTCUsable(r) == r.kind = "html" /\ _cftc_extract(r.titles) # <<>>

FREDUsable(r) == HasKey(r, "kind") /\ r.kind = "json"

TickerUsable(r) == ~IsExc(r) /\ r # NotAsked /\ r.rows # <<>>

Usable(key, r) ==
    CASE key = "eia" -> EIAUsable(r)
      [] key = "baker" -> BakerUsable(r)
      [] key = "cftc" -> CFTCUsable(r)
      [] key = "fred" -> FREDUsable(r)
      [] key = "prices" -> TickerUsable(r)

UpOf(key, rs) ==
    UpClass([i \in 1..Len(rs) |-> IsDown(rs[i])], [i \in 1..Len(rs) |-> Usable(key, rs[i])])

-----------------------------------------------------------------------------
(* ====== RUN ONCE ====== *)

Modes == {"summary", "prices"}

\* lines 757-761: the fetchers run_once calls, in this order, whatever the mode
Selected(mode) == <<"eia", "baker", "cftc", "fred", "prices">>

FetcherOf(key) ==
    CASE key = "eia" -> "get_eia_weekly"
      [] key = "baker" -> "get_baker_hughes"
      [] key = "cftc" -> "get_cftc"
      [] key = "fred" -> "get_fred"
      [] key = "prices" -> "get_prices"

Fetchers == {FetcherOf(k) : k \in Keys}

KeyOf(op) == CHOOSE k \in Keys : FetcherOf(k) = op

RunIdle ==
    [pc |-> "idle", caller |-> "", mode |-> "", chat_id |-> "", i |-> 0,
     payload |-> EmptyDict, exc |-> None, fetched |-> <<>>, wrote |-> {}, errs |-> {},
     text |-> <<>>, wait |-> None]

\* run_once(mode, chat_id) is entered by caller
RunStart(caller, mode, chat_id) ==
    [RunIdle EXCEPT !.pc = "fetch", !.caller = caller, !.mode = mode,
                    !.chat_id = chat_id, !.i = 1]

\* d with d[key] = v
Put(d, key, v) == [k \in DOMAIN d \cup {key} |-> IF k = key THEN v ELSE d[k]]

\* the mutant of RunAfterFetch: an error-tagged result ends the collection
RunAfterFetchStopsAtError(key, r) ==
    IF IsExc(r.value) \/ IsErr(r.value)
    THEN [run EXCEPT !.pc = "assemble", !.exc = Exc("fetch failed"),
                     !.fetched = Append(run.fetched, key)]
    ELSE [run EXCEPT !.pc = IF run.i = Len(Selected(run.mode)) THEN "assemble" ELSE "fetch",
                     !.i = run.i + 1, !.payload = Put(run.payload, key, r.value),
                     !.fetched = Append(run.fetched, key)]

\* run_once after the call of lines 757-761 it stands at returned r: an exception
\* leaves the try block for the handler of line 787
RunAfterFetch(key, r) ==
    LET order == Selected(run.mode)
        fetched == Append(run.fetched, key)
        wrote == IF r.cache # CACHE THEN run.wrote \cup {key} ELSE run.wrote
        errs == IF IsErr(r.value) THEN run.errs \cup {key} ELSE run.errs
    IN  IF IsExc(r.value)
        THEN [run EXCEPT !.pc = "assemble", !.exc = r.value, !.fetched = fetched,
                         !.wrote = wrote, !.errs = errs]
        ELSE [run EXCEPT !.pc = IF run.i = Len(order) THEN "assemble" ELSE "fetch",
                         !.i = run.i + 1, !.payload = Put(run.payload, key, r.value),
                         !.fetched = fetched, !.wrote = wrote, !.errs = errs]

\* One call of a fetcher, by a caller of its own (a chat command's handler) or by
\* run_once at lines 757-761; r is what the fetcher does, up how its upstream stood.
Called(key, r, up) ==
    /\ CACHE' = r.cache
    /\ ret' = [op |-> FetcherOf(key), value |-> r.value, net |-> r.net,
               hit |-> Truthy(get_cache(CACHE, key, now)),
               up |-> IF r.net = 0 THEN "not asked" ELSE up]
    /\ IF run.pc = "idle"
       THEN nCalls' = nCalls + 1 /\ run' = run
       ELSE IF run.pc = "hook"
       THEN nCalls' = nCalls
            /\ run' = [run EXCEPT !.pc = "reply", !.payload = Put(run.payload, key, r.value)]
       ELSE nCalls' = nCalls /\ run' = RunAfterFetch(key, r)
    /\ UNCHANGED <<now, env, hist, nTicks>>

\* the answers to enumerate for a request: none when the call makes no request
\* (its cached row is valid, its API key is missing)
Answers(key, responses) ==
    IF Truthy(get_cache(CACHE, key, now))
       \/ (key = "eia" /\ ~env.EIA_API_KEY) \/ (key = "fred" /\ ~env.FRED_API_KEY)
    THEN {NotAsked} ELSE responses

Fetch_eia ==
    \E resp \in Answers("eia", EIAResponses) :
        Called("eia", get_eia_weekly(CACHE, now, env, resp), UpOf("eia", <<resp>>))

Fetch_baker ==
    \E resp \in Answers("baker", BakerResponses) :
        Called("baker", get_baker_hughes(CACHE, now, resp), UpOf("baker", <<resp>>))

Fetch_cftc ==
    \E r1 \in Answers("cftc", CFTCResponses), r2 \in Answers("cftc", CFTCResponses) :
        Called("cftc", get_cftc(CACHE, now, r1, r2), UpOf("cftc", <<r1, r2>>))

\* the second series is requested only when the first was read
Fetch_fred ==
    \E r1 \in Answers("fred", FREDResponses) :
    \E r2 \in IF FREDUsable(r1) THEN FREDResponses ELSE {NotAsked} :
        Called("fred", get_fred(CACHE, now, env, r1, r2),
               UpOf("fred", SelectSeq(<<r1, r2>>, LAMBDA r : r # NotAsked)))

\* the tickers after the first DXY one are looked up only while DXY is still missing
Fetch_prices ==
    \E rw \in Answers("prices", TickerResponses), r1 \in Answers("prices", TickerResponses) :
    \E r2 \in IF r1 = NotAsked \/ TickerUsable(r1) THEN {NotAsked} ELSE TickerResponses :
    \E r3 \in IF r2 = NotAsked \/ TickerUsable(r2) THEN {NotAsked} ELSE TickerResponses :
        Called("prices", get_prices(CACHE, now, rw, r1, r2, r3),
               UpOf("prices", SelectSeq(<<rw, r1, r2, r3>>, LAMBDA r : r # NotAsked)))

\* a fetcher is called by a caller of its own
MayCall == run.pc = "idle" /\ nCalls < MaxCalls

Call_get_eia_weekly == MayCall /\ Fetch_eia

Call_get_baker_hughes == MayCall /\ Fetch_baker

Call_get_cftc == MayCall /\ Fetch_cftc

Call_get_fred == MayCall /\ Fetch_fred

Call_get_prices == MayCall /\ Fetch_prices

\* run_once calls the fetcher it stands at, lines 757-761
AtFetch(key) == run.pc = "fetch" /\ Selected(run.mode)[run.i] = key

run_once_fetch ==
    \/ AtFetch("eia") /\ Fetch_eia
    \/ AtFetch("baker") /\ Fetch_baker
    \/ AtFetch("cftc") /\ Fetch_cftc
    \/ AtFetch("fred") /\ Fetch_fred
    \/ AtFetch("prices") /\ Fetch_prices

-----------------------------------------------------------------------------
(* ====== TELEGRAM WEBHOOK ====== *)
(* A str is [str |-> the sequence of its characters]; a JSON value that is   *)
(* not an object carries its Python type under "pytype".                     *)

Str(chars) == [str |-> chars]

IsStr(x) == HasKey(x, "str")

IsDict(x) == ~HasKey(x, "pytype") /\ ~IsStr(x)

\* str.lower, on the letters the texts at hand are made of
LowerChar(c) ==
    CASE c = "C" -> "c" [] c = "O" -> "o" [] c = "T" -> "t" [] c = "F" -> "f"
      [] c = "U" -> "u" [] c = "L" -> "l" [] c = "S" -> "s" [] OTHER -> c

lower(chars) == [i \in DOMAIN chars |-> LowerChar(chars[i])]

\* str.strip
strip(chars) ==
    LET inked == {i \in DOMAIN chars : chars[i] # " "} IN
    IF inked = {} THEN <<>>
    ELSE SubSeq(chars, CHOOSE i \in inked : \A j \in inked : i <= j,
                       CHOOSE i \in inked : \A j \in inked : i >= j)

\* str.startswith
startswith(chars, prefix) ==
    Len(prefix) <= Len(chars) /\ SubSeq(chars, 1, Len(prefix)) = prefix

\* the commands of the help text, lines 528-535, and /start, /help
Commands == {"start", "help", "summary", "prices", "eia", "baker", "cot", "cot_full", "macro"}

CommandText(c) ==
    CASE c = "start" -> <<"/", "s", "t", "a", "r", "t">>
      [] c = "help" -> <<"/", "h", "e", "l", "p">>
      [] c = "summary" -> <<"/", "s", "u", "m", "m", "a", "r", "y">>
      [] c = "prices" -> <<"/", "p", "r", "i", "c", "e", "s">>
      [] c = "eia" -> <<"/", "e", "i", "a">>
      [] c = "baker" -> <<"/", "b", "a", "k", "e", "r">>
      [] c = "cot" -> <<"/", "c", "o", "t">>
      [] c = "cot_full" -> <<"/", "c", "o", "t", "_", "f", "u", "l", "l">>
      [] c = "macro" -> <<"/", "m", "a", "c", "r", "o">>

\* what a chat can send as the text of a message
Texts ==
    {CommandText(c) : c \in Commands}
    \cup {<<>>, <<"h", "i">>, <<"/", "S", "u", "m", "m", "a", "r", "y">>,
          <<" ", "/", "C", "O", "T", "_", "F", "U", "L", "L", " ">>}

\* str(id) of the chat ids at hand
IntStr(n) == CASE n = 5 -> "5" [] n = 777 -> "777"

\* what request.get_json(force=True, silent=True) returns: None for a body that is
\* not JSON, a list, an update whose text is a number, updates with a message or
\* an edited message, from a chat with an id or with none
Updates ==
    {None, [pytype |-> "list", len |-> 1],
     [message |-> [chat |-> [id |-> 5], text |-> [pytype |-> "int", value |-> 7]]],
     [edited_message |-> [chat |-> [id |-> 5], text |-> Str(CommandText("prices"))]],
     [message |-> [text |-> Str(CommandText("eia"))]],
     [message |-> [chat |-> [id |-> 5]]]}
    \cup {[message |-> [chat |-> [id |-> 5], text |-> Str(t)]] : t \in Texts}

\* lines 519-522: chat_id and text of the update
hook_parse(e, body) ==
    LET upd == IF Truthy(body) THEN body ELSE EmptyDict IN
    IF ~IsDict(upd) THEN Exc("AttributeError")
    ELSE LET m1 == Get(upd, "message")
             m2 == Get(upd, "edited_message")
             msg == IF Truthy(m1) THEN m1 ELSE IF Truthy(m2) THEN m2 ELSE EmptyDict
         IN  IF ~IsDict(msg) THEN Exc("AttributeError")
             ELSE LET chat == IF HasKey(msg, "chat") THEN msg.chat ELSE EmptyDict IN
                  IF ~IsDict(chat) THEN Exc("AttributeError")
                  ELSE LET id == IF HasKey(chat, "id") THEN IntStr(chat.id) ELSE ""
                           t == Get(msg, "text")
                           raw == IF t = None \/ t = Str(<<>>) THEN Str(<<>>) ELSE t
                       IN  IF ~IsStr(raw) THEN Exc("AttributeError")
                           ELSE [chat_id |-> IF id # "" THEN id ELSE e.TELEGRAM_CHAT_ID,
                                 text |-> lower(strip(raw.str))]

\* lines 524-589: the handler the chain of ifs picks, by the name of its command
hook_branch(text) ==
    IF text \in {CommandText("start"), CommandText("help")} THEN "help"
    ELSE IF startswith(text, CommandText("prices")) THEN "prices"
    ELSE IF startswith(text, CommandText("summary")) THEN "summary"
    ELSE IF startswith(text, CommandText("eia")) THEN "eia"
    ELSE IF startswith(text, CommandText("baker")) THEN "baker"
    ELSE IF startswith(text, CommandText("cot")) THEN "cot"
    ELSE IF startswith(text, CommandText("cot_full")) THEN "cot_full"
    ELSE IF startswith(text, CommandText("macro")) THEN "macro"
    ELSE "unknown"

\* the cache key of the fetcher a handler calls
HookFetcher(branch) ==
    CASE branch = "prices" -> "prices"
      [] branch = "eia" -> "eia"
      [] branch = "baker" -> "baker"
      [] branch \in {"cot", "cot_full"} -> "cftc"
      [] branch = "macro" -> "fred"

\* fmt_prices, lines 500-514
fmt_prices(pr) ==
    IF ~Truthy(pr) THEN [text |-> "Market data unavailable."]
    ELSE [WTI |-> _num_opt(Get(pr, "WTI")), WTI_change |-> _pct(Get(pr, "WTI_change")),
          DXY |-> _num_opt(Get(pr, "DXY")), DXY_change |-> _pct(Get(pr, "DXY_change"))]

\* gpt_analyze_cftc, lines 439-470
gpt_analyze_cftc(e, full_text, ai) ==
    IF ~e.OPENAI_API_KEY THEN [kind |-> "no key"]
    ELSE Catch(gpt_try(ai), [kind |-> "gpt", text |-> "GPT error"])

\* one send_telegram of a handler: what is sent, and what the call returned
Send(e, what, chat_id, tg) == [what |-> what, result |-> send_telegram(e, what, chat_id, tg)]

\* the sends of a handler once its fetcher has returned got; lines 547-586
hook_sends(e, branch, got, chat_id, tg1, tg2, ai) ==
    CASE branch = "prices" -> <<Send(e, [fmt_prices |-> fmt_prices(got)], chat_id, tg1)>>
      [] branch = "eia" ->
            IF HasKey(got, "error") THEN <<Send(e, [warning |-> got.error], chat_id, tg1)>>
            ELSE <<Send(e, [report |-> Get(got, "report")], chat_id, tg1)>>
      [] branch = "baker" -> <<Send(e, [baker_raw |-> got], chat_id, tg1)>>
      [] branch = "cot" ->
            <<Send(e, [cftc_raw |-> IF HasKey(got, "snippet") THEN got.snippet ELSE <<>>],
                   chat_id, tg1)>>
      [] branch = "cot_full" ->
            LET snippet == IF HasKey(got, "snippet") THEN got.snippet ELSE <<>>
                first == Send(e, [notice |-> "analysing the full CFTC report"], chat_id, tg1)
            IN  IF IsExc(first.result) THEN <<first>>
                ELSE LET ai_report == gpt_analyze_cftc(e, snippet, ai) IN
                     IF IsExc(ai_report) THEN <<first, [what |-> ai_report, result |-> ai_report]>>
                     ELSE <<first, Send(e, [gpt_analyze_cftc |-> ai_report], chat_id, tg2)>>
      [] branch = "macro" -> <<Send(e, [fred_raw |-> got], chat_id, tg1)>>
      [] branch = "help" -> <<Send(e, [help |-> Commands], chat_id, tg1)>>
      [] branch = "unknown" -> <<Send(e, [unknown_command |-> TRUE], chat_id, tg1)>>

\* the exception that left the sends of a handler, if one did
Raised(sends) ==
    IF \E i \in DOMAIN sends : IsExc(sends[i].result)
    THEN sends[CHOOSE i \in DOMAIN sends : IsExc(sends[i].result)].result
    ELSE None

\* the mutant of webhook_except: the exception leaves the view
webhook_reraises(e, exc, tg) == exc

\* lines 591-594: the handler of telegram_webhook
webhook_except(e, exc, tg) ==
    LET s == send_telegram(e, [internal_error |-> TRUE], "", tg) IN
    IF IsExc(s) THEN s
    ELSE [status |-> 200, body |-> [ok |-> FALSE, error |-> IF IsExc(exc) THEN exc.exc ELSE ""]]

\* what Flask answers: v is what the try block of telegram_webhook returned or
\* raised, tg what the Telegram API answers to the handler's send
hook_response(e, v, tg) ==
    LET r == Catch(v, webhook_except(e, v, tg)) IN
    IF IsExc(r) THEN [status |-> 500, body |-> r] ELSE r

\* Flask: the view's return value as a 200, an exception leaving it as a 500
FlaskResponse(v) ==
    IF IsExc(v) THEN [status |-> 500, body |-> v] ELSE [status |-> 200, body |-> v]

\* what the caller of run_once makes of its result: lines 489, 498
CallerResponse(e, caller, res, tg) ==
    IF caller = "cron_daily" THEN FlaskResponse([ok |-> TRUE, result |-> res])
    ELSE IF caller = "telegram_webhook"
    THEN hook_response(e, IF IsExc(res) THEN res
                          ELSE [status |-> 200, body |-> [ok |-> TRUE, result |-> res]], tg)
    ELSE FlaskResponse(res)

\* lines 787-791: the handler of run_once
run_once_except(e, chat_id, tg) ==
    LET err_msg == [message |-> <<[section |-> "run_once error"]>>] IN
    LET sends == IF chat_id # "" THEN <<send_telegram(e, err_msg, chat_id, tg)>> ELSE <<>> IN
    [value |-> IF sends # <<>> /\ IsExc(sends[1]) THEN sends[1] ELSE err_msg,
     failed |-> TRUE, payload |-> EmptyDict, sends |-> sends]

\* lines 763-785: the try block of run_once once the five fetchers have returned
run_once_try(e, payload0, chat_id, nums, ai, tg) ==
    LET cftc == payload0.cftc
        snippet == IF HasKey(cftc, "snippet") THEN cftc.snippet ELSE <<>>
        payload == Put(payload0, "cftc_interpretation", analyze_cftc_snippet(snippet, nums))
        analysis == gpt_analyze(e, payload, payload.prices, ai)
    IN  IF IsExc(analysis) THEN [value |-> analysis, sends |-> <<>>]
        ELSE LET report == [message |-> fmt_summary(payload, analysis)]
                 sends == IF chat_id # "" THEN <<send_telegram(e, report, chat_id, tg)>>
                          ELSE <<>>
             IN  IF sends # <<>> /\ IsExc(sends[1]) THEN [value |-> sends[1], sends |-> sends]
                 ELSE [value |-> report, failed |-> FALSE, payload |-> payload,
                       sends |-> sends]

\* run_once from line 763 on, or from line 787 when a fetcher raised
run_once_rest(e, r, nums, ai, tg) ==
    IF r.exc # None THEN run_once_except(e, r.chat_id, tg)
    ELSE LET t == run_once_try(e, r.payload, r.chat_id, nums, ai, tg)
             x == run_once_except(e, r.chat_id, tg)
         IN  IF IsExc(t.value) THEN [x EXCEPT !.sends = t.sends \o x.sends] ELSE t

\* GET /analyze?mode=...
analyze_endpoint ==
    /\ run.pc = "idle" /\ nCalls < MaxRequests
    /\ \E mode \in Modes : run' = RunStart("analyze_endpoint", mode, "")
    /\ ret' = [op |-> "request"]
    /\ nCalls' = nCalls + 1
    /\ UNCHANGED <<CACHE, now, env, hist, nTicks>>

\* GET /cron/daily
cron_daily ==
    /\ run.pc = "idle" /\ nCalls < MaxRequests
    /\ run' = RunStart("cron_daily", "summary", env.TELEGRAM_CHAT_ID)
    /\ ret' = [op |-> "request"]
    /\ nCalls' = nCalls + 1
    /\ UNCHANGED <<CACHE, now, env, hist, nTicks>>

\* the numbers in the CFTC snippet of the payload at hand
RunTokens ==
    IF run.exc = None /\ HasKey(run.payload.cftc, "snippet")
        THEN TokensIn(run.payload.cftc.snippet) ELSE {<<>>}

\* run_once goes on after its last fetcher and returns to its caller
run_once_finish ==
    /\ run.pc = "assemble"
    /\ \E nums \in RunTokens :
       \E ai \in IF env.OPENAI_API_KEY THEN AIResponses ELSE {NotAsked} :
       \E tg \in IF env.TELEGRAM_BOT_TOKEN /\ run.chat_id # "" THEN TelegramResponses
                 ELSE {NotAsked} :
        LET res == run_once_rest(env, run, nums, ai, tg) IN
        \E tgx \in IF run.caller = "telegram_webhook" /\ IsExc(res.value)
                       /\ env.TELEGRAM_BOT_TOKEN /\ env.TELEGRAM_CHAT_ID # ""
                    THEN TelegramResponses ELSE {NotAsked} :
        ret' = [op |-> "run_once", caller |-> run.caller, mode |-> run.mode,
                chat_id |-> run.chat_id, value |-> res.value, failed |-> res.failed,
                payload |-> res.payload, sends |-> res.sends, fetched |-> run.fetched,
                wrote |-> run.wrote, errs |-> run.errs, internal |-> IsExc(res.value),
                response |-> CallerResponse(env, run.caller, res.value, tgx)]
    /\ run' = RunIdle
    /\ UNCHANGED <<CACHE, now, env, hist, nCalls, nTicks>>

\* `collect`, looked up when line 484 runs
Resolve(name) == IF name \in Globals THEN [callable |-> name] ELSE Exc("NameError")

\* GET /data?mode=...: jsonify(collect(mode)), lines 481-484
data_endpoint ==
    /\ run.pc = "idle" /\ nCalls < MaxRequests
    /\ \E mode \in Modes :
        LET f == Resolve("collect")
            v == IF IsExc(f) THEN f ELSE [result_of |-> f.callable, mode |-> mode]
        IN  ret' = [op |-> "data_endpoint", mode |-> mode, raised |-> IsExc(v),
                    response |-> FlaskResponse(v)]
    /\ nCalls' = nCalls + 1
    /\ UNCHANGED <<CACHE, now, env, run, hist, nTicks>>

-----------------------------------------------------------------------------
(* The clock, the initial state, the specification. *)

\* the clock advances to the last instant a row of prices set now is valid, to the
\* first instant it is expired, or past the expiry of every row set now
Jumps == {PRICES_TTL, PRICES_TTL + 1, BAKER_TTL + 1}

Tick ==
    /\ run.pc = "idle" /\ nTicks < MaxTicks
    /\ 0 < nCalls /\ nCalls < MaxCalls
    /\ \E d \in Jumps : now' = now + d
    /\ nTicks' = nTicks + 1
    /\ UNCHANGED <<CACHE, env, run, ret, hist, nCalls>>

Init ==
    /\ CACHE = EmptyDict
    /\ now = 0
    /\ env \in Envs
    /\ run = RunIdle
    /\ ret = [op |-> "none"]
    /\ hist = EmptyDict
    /\ nCalls = 0
    /\ nTicks = 0

\* The fetchers, called one at a time as the chat commands' handlers call them,
\* and the clock.
Next ==
    \/ Tick
    \/ Call_get_eia_weekly
    \/ Call_get_baker_hughes
    \/ Call_get_cftc
    \/ Call_get_fred
    \/ Call_get_prices

Spec == Init /\ [][Next]_vars

\* The HTTP routes /analyze, /cron/daily and /data, and run_once under them.
NextRun ==
    \/ analyze_endpoint
    \/ cron_daily
    \/ run_once_fetch
    \/ run_once_finish
    \/ data_endpoint

SpecRun == Init /\ [][NextRun]_vars

\* the answers of the Telegram API to enumerate for a send to chat_id
TgAnswers(chat_id) ==
    IF env.TELEGRAM_BOT_TOKEN /\ (chat_id # "" \/ env.TELEGRAM_CHAT_ID # "")
    THEN TelegramResponses ELSE {NotAsked}

\* the view returns: its sends, its response
HookReturn(text, branch, chat_id, sends, tgx) ==
    LET exc == Raised(sends)
        v == IF exc # None THEN exc ELSE [status |-> 200, body |-> [ok |-> TRUE]]
    IN  [op |-> "telegram_webhook", text |-> text, branch |-> branch, chat_id |-> chat_id,
         sends |-> sends, internal |-> IsExc(v), response |-> hook_response(env, v, tgx)]

\* POST /telegram, up to the call of a fetcher or of run_once, or to the return of
\* a handler that calls neither
telegram_webhook ==
    /\ run.pc = "idle" /\ nCalls < MaxRequests
    /\ nCalls' = nCalls + 1
    /\ \E body \in Updates :
        LET p == hook_parse(env, body) IN
        IF IsExc(p)
        THEN /\ \E tgx \in TgAnswers("") :
                    ret' = [op |-> "telegram_webhook", text |-> <<>>, branch |-> "none",
                            chat_id |-> "", sends |-> <<>>, internal |-> TRUE,
                            response |-> hook_response(env, p, tgx)]
             /\ run' = run
        ELSE LET branch == hook_branch(p.text) IN
             IF branch = "summary"
             THEN /\ run' = [RunStart("telegram_webhook", "summary", p.chat_id)
                                EXCEPT !.text = p.text]
                  /\ ret' = [op |-> "request", text |-> p.text, branch |-> branch]
             ELSE IF branch \in {"help", "unknown"}
             THEN /\ \E tg1 \in TgAnswers(p.chat_id) :
                     \E tgx \in IF tg1 = Down THEN TgAnswers("") ELSE {NotAsked} :
                        ret' = HookReturn(p.text, branch, p.chat_id,
                                          hook_sends(env, branch, None, p.chat_id,
                                                     tg1, NotAsked, NotAsked), tgx)
                  /\ run' = run
             ELSE /\ run' = [RunIdle EXCEPT !.pc = "hook", !.caller = "telegram_webhook",
                                            !.mode = branch, !.chat_id = p.chat_id,
                                            !.text = p.text]
                  /\ ret' = [op |-> "request", text |-> p.text, branch |-> branch]
    /\ UNCHANGED <<CACHE, now, env, hist, nTicks>>

AtHook(key) == run.pc = "hook" /\ HookFetcher(run.mode) = key

\* the handler of /eia, /baker, /cot, /macro or /prices calls its fetcher
webhook_fetch ==
    \/ AtHook("eia") /\ Fetch_eia
    \/ AtHook("baker") /\ Fetch_baker
    \/ AtHook("cftc") /\ Fetch_cftc
    \/ AtHook("fred") /\ Fetch_fred
    \/ AtHook("prices") /\ Fetch_prices

\* the handler sends what its fetcher returned and the view returns
webhook_reply ==
    /\ run.pc = "reply"
    /\ \E tg1 \in TgAnswers(run.chat_id) :
       \E ai \in IF run.mode = "cot_full" /\ env.OPENAI_API_KEY THEN AIResponses
                 ELSE {NotAsked} :
       \E tg2 \in IF run.mode = "cot_full" THEN TgAnswers(run.chat_id) ELSE {NotAsked} :
       \E tgx \in IF Down \in {tg1, tg2, ai} THEN TgAnswers("") ELSE {NotAsked} :
        ret' = HookReturn(run.text, run.mode, run.chat_id,
                          hook_sends(env, run.mode, run.payload[HookFetcher(run.mode)],
                                     run.chat_id, tg1, tg2, ai), tgx)
    /\ run' = RunIdle
    /\ UNCHANGED <<CACHE, now, env, hist, nCalls, nTicks>>

\* The route /telegram, the fetchers and run_once under it.
NextHook ==
    \/ telegram_webhook
    \/ webhook_fetch
    \/ webhook_reply
    \/ run_once_fetch
    \/ run_once_finish

SpecHook == Init /\ [][NextHook]_vars

-----------------------------------------------------------------------------
(* ====== timeouts; /data.json of the older revision ====== *)

REQUEST_TIMEOUT == 40

\* an upstream that accepts the connection and never answers
Silent == [kind |-> "silent"]

\* requests.get(url, timeout=timeout) comes back, with a response or an exception:
\* from a silent upstream it does only when it is given a timeout
Returns(answer, timeout) == answer # Silent \/ timeout # None

\* what requests.get comes back with
Outcome(answer, timeout) ==
    IF answer = Silent THEN Exc("Timeout")
    ELSE IF IsDown(answer) THEN Exc("ConnectionError")
    ELSE answer

\* http_get of app.py, lines 45-46: what it hands to the fetcher that called it.
\* A silent upstream is, after REQUEST_TIMEOUT seconds, the exception Down stands for
http_get(answer) ==
    IF IsExc(Outcome(answer, Some(REQUEST_TIMEOUT))) THEN Down ELSE answer

\* what yf.Ticker(...).info gives get_data: a price, no price, an exception
InfoAnswers == {Exc("YFError"), [regularMarketPrice |-> None], [regularMarketPrice |-> Some(6123)]}

\* what rigcount.bakerhughes.com does with the request of get_data
RigAnswers == {Down, Silent, [kind |-> "html", table |-> None],
               [kind |-> "html", table |-> Some(548)]}

\* what www.cftc.gov does with the request of get_data
CotAnswers == {Down, Silent, [kind |-> "http", status_code |-> 200],
               [kind |-> "http", status_code |-> 503]}

\* GET /data.json: get_data is entered, part_000 lines 9-11
get_data ==
    /\ run.pc = "idle" /\ nCalls < MaxRequests
    /\ run' = [RunIdle EXCEPT !.pc = "yahoo", !.caller = "get_data"]
    /\ ret' = [op |-> "request"]
    /\ nCalls' = nCalls + 1
    /\ UNCHANGED <<CACHE, now, env, hist, nTicks>>

\* part_000 lines 13-20: WTI and DXY
get_data_yahoo ==
    /\ run.pc = "yahoo"
    /\ \E info \in InfoAnswers :
        LET got == Catch(IF IsExc(info) THEN info
                         ELSE [WTI |-> info.regularMarketPrice,
                               DXY |-> info.regularMarketPrice],
                         [WTI |-> None, DXY |-> None, error_yahoo |-> "YFError"])
        IN  run' = [run EXCEPT !.pc = "rig", !.payload = got]
    /\ UNCHANGED <<CACHE, now, env, ret, hist, nCalls, nTicks>>

\* part_000 lines 24 and 34: requests.get(url), no timeout, is called
get_data_request ==
    /\ run.pc \in {"rig", "cot"}
    /\ \E answer \in IF run.pc = "rig" THEN RigAnswers ELSE CotAnswers :
        run' = [run EXCEPT !.pc = IF run.pc = "rig" THEN "rig wait" ELSE "cot wait",
                           !.wait = [answer |-> answer, timeout |-> None]]
    /\ UNCHANGED <<CACHE, now, env, ret, hist, nCalls, nTicks>>

\* part_000 lines 25-30: the Baker Hughes entry
data_rig(r) ==
    Catch(IF IsExc(r) THEN r
          ELSE [BakerHughes |-> IF r.table # None THEN [text |-> r.table.some]
                                ELSE [text |-> "Not found"]],
          [BakerHughes |-> None, error_rig |-> "RequestException"])

\* part_000 lines 35-42: the COT entry
data_cot(r) ==
    Catch(IF IsExc(r) THEN r
          ELSE [COT |-> IF r.status_code = 200 THEN [text |-> "OK"]
                        ELSE [text |-> "Error", status_code |-> r.status_code]],
          [COT |-> None, error_cot |-> "RequestException"])

\* d1 updated with the entries of d2
Update(d1, d2) == [k \in DOMAIN d1 \cup DOMAIN d2 |-> IF k \in DOMAIN d2 THEN d2[k] ELSE d1[k]]

\* requests.get comes back and get_data goes on: to the next request, or to its
\* return at line 45
get_data_return ==
    /\ run.pc \in {"rig wait", "cot wait"}
    /\ Returns(run.wait.answer, run.wait.timeout)
    /\ LET r == Outcome(run.wait.answer, run.wait.timeout) IN
       IF run.pc = "rig wait"
       THEN /\ run' = [run EXCEPT !.pc = "cot", !.wait = None,
                                  !.payload = Update(run.payload, data_rig(r))]
            /\ ret' = ret
       ELSE LET data == Update(run.payload, data_cot(r)) IN
            /\ run' = RunIdle
            /\ ret' = [op |-> "get_data", data |-> data, response |-> FlaskResponse(data)]
    /\ UNCHANGED <<CACHE, now, env, hist, nCalls, nTicks>>

\* The collections: run_once under /analyze, get_data under /data.json.  A request
\* being handled takes its next step whenever it can.
NextLive ==
    \/ analyze_endpoint
    \/ run_once_fetch
    \/ run_once_finish
    \/ get_data
    \/ get_data_yahoo
    \/ get_data_request
    \/ get_data_return

SpecLive == Init /\ [][NextLive]_vars /\ WF_vars(NextLive)

-----------------------------------------------------------------------------
(* The cache on its own: set_cache and get_cache called with any key, value   *)
(* and ttl, one second at a time.                                             *)

CacheValues == {EmptyDict, [v |-> 1], [v |-> 2]}

CacheKeys == {"eia", "prices"}

\* how the row set_cache is about to store stands to the row it finds
Replaces(row, v, ttl, t) ==
    IF row = None THEN "nothing"
    ELSE IF row.data # v /\ row.ttl # ttl /\ row.ts < t THEN "another row" ELSE "a like row"

direct_set_cache ==
    /\ \E key \in CacheKeys, v \in CacheValues, ttl \in 0..MaxTTL :
        /\ CACHE' = set_cache(CACHE, key, v, ttl, now)
        /\ hist' = Put(hist, key, [v |-> v, ttl |-> ttl, at |-> now])
        /\ ret' = [op |-> "set_cache", key |-> key, replaced |-> Replaces(CacheRow(CACHE, key), v, ttl, now)]
    /\ UNCHANGED <<now, env, run, nCalls, nTicks>>

direct_get_cache ==
    /\ \E key \in CacheKeys :
        ret' = [op |-> "get_cache", key |-> key, at |-> now,
                value |-> get_cache(CACHE, key, now)]
    /\ UNCHANGED <<CACHE, now, env, run, hist, nCalls, nTicks>>

Second ==
    /\ now < MaxNow
    /\ now' = now + 1
    /\ UNCHANGED <<CACHE, env, run, ret, hist, nCalls, nTicks>>

InitCache ==
    /\ CACHE = EmptyDict
    /\ now = 0
    /\ env = Env(TRUE, TRUE, TRUE, TRUE, "777")
    /\ run = RunIdle
    /\ ret = [op |-> "none"]
    /\ hist = EmptyDict
    /\ nCalls = 0
    /\ nTicks = 0

NextCache == direct_set_cache \/ direct_get_cache \/ Second

SpecCache == InitCache /\ [][NextCache]_vars

-----------------------------------------------------------------------------
(* Properties. *)

\* this step is a call of the fetcher of key
CallStep(key) ==
    /\ ret'.op = FetcherOf(key)
    /\ nCalls' # nCalls \/ run'.fetched # run.fetched

\* the row of key is present and not past its ttl
ValidRow(key) == key \in DOMAIN CACHE /\ now <= CACHE[key].ts + CACHE[key].ttl

\* the last call was of a fetcher whose upstream was unreachable or answered
\* nothing usable
FetchFailed(r) == r.op \in Fetchers /\ r.up \in {"unreachable", "malformed"}

C3_CacheTTL ==
    ret.op = "get_cache" =>
        IF ret.key \in DOMAIN hist
        THEN ret.value = IF ret.at <= hist[ret.key].at + hist[ret.key].ttl
                         THEN hist[ret.key].v ELSE None
        ELSE ret.value = None

\* C3: a get_cache at the boundary instant storedAt + ttl, ttl > 0, returned v
C3_Witness ==
    /\ ret.op = "get_cache" /\ ret.key \in DOMAIN hist
    /\ hist[ret.key].ttl > 0
    /\ ret.at = hist[ret.key].at + hist[ret.key].ttl
    /\ ret.value = hist[ret.key].v /\ ret.value # None

\* C4: a fetcher called while the row under its key is valid returns the data of
\* that row, makes no request and leaves CACHE as it is.
C4_CacheHit ==
    [][\A key \in Keys :
        CallStep(key) /\ ValidRow(key) =>
            /\ ret'.value = CACHE[key].data
            /\ ret'.net = 0
            /\ CACHE' = CACHE]_vars

\* C4: get_prices has returned its row at the last instant the row is valid
C4_Witness ==
    /\ ret.op = "get_prices" /\ ret.hit /\ ret.net = 0
    /\ "prices" \in DOMAIN CACHE
    /\ now = CACHE["prices"].ts + PRICES_TTL /\ now > 0
    /\ ret.value = CACHE["prices"].data

\* C5, as claimed: a fetcher call whose fetch fails leaves CACHE unchanged.
C5_NoCacheWriteOnFailure ==
    [][\A key \in Keys : CallStep(key) /\ FetchFailed(ret') => CACHE' = CACHE]_vars

\* C6, as claimed: get_prices called when the row of "prices" has expired and the
\* fetch yields neither WTI nor DXY returns the data of that row.
C6_PricesFallback ==
    [][(/\ CallStep("prices")
        /\ "prices" \in DOMAIN CACHE /\ ~ValidRow("prices")
        /\ FetchFailed(ret'))
       => ret'.value = CACHE["prices"].data]_vars

\* the sections of a report, the header left out
Body(report) == Sections(report.message) \ {"header"}

C7_SectionPerSource ==
    ret.op = "run_once" /\ ~ret.failed => Keys \subseteq Body(ret.value)

\* C8, as claimed: when the Telegram delivery of a report fails, run_once does not
\* raise and its result tells the caller that the delivery failed.
C8_DeliveryFailureReported ==
    (/\ ret.op = "run_once" /\ ~ret.failed
     /\ ret.sends # <<>> /\ ~ret.sends[1].sent)
    => /\ ~IsExc(ret.value)
       /\ HasKey(ret.value, "sent") /\ ret.value.sent = FALSE

\* C9, as claimed: a request to /data is answered with status 200 and the
\* collected aggregate, and raises nothing.
C9_DataEndpointAnswers ==
    ret.op = "data_endpoint" => ~ret.raised /\ ret.response.status = 200

\* C10, as claimed: a collection in mode "prices" calls the prices fetcher only and
\* writes no cache row of another source; one in mode "summary" calls all five.
C10_ModeSelectsFetchers ==
    ret.op = "run_once" =>
        /\ ret.mode = "prices" => ret.fetched = <<"prices">> /\ ret.wrote \subseteq {"prices"}
        /\ ret.mode = "summary" => {ret.fetched[i] : i \in DOMAIN ret.fetched} = Keys

\* the instants at which expiry is looked at
Instants == 0..(MaxNow + MaxTTL + 1)

\* C14: set_cache(k, v, ttl) replaces the row of k, present or not, valid or
\* expired, by (v, now, ttl): get_cache(k) returns v from now up to now + ttl and
\* None after, whatever the row replaced; the rows of the other keys are unchanged.
C14_SetCacheOverwrites ==
    [][(ret'.op = "set_cache" /\ now' = now) =>
        LET k == ret'.key
            h == hist'[k]
        IN  /\ h.at = now
            /\ CACHE'[k] = [data |-> h.v, ts |-> now, ttl |-> h.ttl]
            /\ \A t \in Instants :
                t >= now => get_cache(CACHE', k, t) = IF t <= now + h.ttl THEN h.v ELSE None
            /\ DOMAIN CACHE' = DOMAIN CACHE \cup {k}
            /\ \A k2 \in DOMAIN CACHE \ {k} : CACHE'[k2] = CACHE[k2]]_vars

\* C14: a set_cache has replaced a row of another value and ttl, stored earlier,
\* while a row of another key was present
C14_Witness ==
    /\ ret.op = "set_cache" /\ ret.replaced = "another row"
    /\ CACHE[ret.key] = [data |-> hist[ret.key].v, ts |-> now, ttl |-> hist[ret.key].ttl]
    /\ DOMAIN CACHE # {ret.key}

\* C16: run_once calls send_telegram once when it is given a non-empty chat_id,
\* with the report or with the run_once error message, and never when it is given
\* none; a /cron/daily request with TELEGRAM_CHAT_ID set makes one such call, and
\* at most one request to the Telegram API.
C16_OneSendPerRun ==
    ret.op = "run_once" =>
        /\ Len(ret.sends) = IF ret.chat_id # "" THEN 1 ELSE 0
        /\ \A i \in DOMAIN ret.sends : ~IsExc(ret.sends[i])
        /\ (ret.caller = "cron_daily" /\ env.TELEGRAM_CHAT_ID # "") => Len(ret.sends) = 1

\* C16: a /cron/daily request with a chat id has made its one call, which posted
\* the report and was turned down by the Telegram API
C16_Witness ==
    /\ ret.op = "run_once" /\ ret.caller = "cron_daily" /\ ret.chat_id # ""
    /\ Len(ret.sends) = 1 /\ ret.sends[1].posted /\ ~ret.sends[1].sent
    /\ ~ret.failed

\* the sources run_once has yet to fetch
Pending == {Selected(run.mode)[j] : j \in run.i..Len(Selected(run.mode))}

\* C11, as claimed: while a collection is fetching, every fetcher that has not
\* completed can start now, whatever the others have done; the payload is
\* assembled only when all have completed.
C11_FetchersConcurrent ==
    /\ run.pc = "fetch" => \A key \in Pending : AtFetch(key)
    /\ ret.op = "run_once" /\ ~ret.failed => Len(ret.fetched) = Len(Selected(ret.mode))

\* the view telegram_webhook has returned
HookAnswered ==
    \/ ret.op = "telegram_webhook"
    \/ ret.op = "run_once" /\ ret.caller = "telegram_webhook"

\* C13, as claimed: a text that is a command of the help text reaches the handler
\* of that command, whatever its case; a text starting with /cot_full gets the
\* progress notice followed by the gpt_analyze_cftc report, not the raw snippet.
C13_EachCommandOwnHandler ==
    (ret.op \in {"telegram_webhook", "request"} /\ HasKey(ret, "branch")
     /\ ret.branch # "none") =>
        /\ \A c \in Commands \ {"start"} : ret.text = CommandText(c) => ret.branch = c
        /\ ret.text = CommandText("start") => ret.branch = "help"
        /\ (ret.op = "telegram_webhook" /\ startswith(ret.text, CommandText("cot_full"))) =>
            /\ Len(ret.sends) = 2
            /\ HasKey(ret.sends[1].what, "notice")
            /\ HasKey(ret.sends[2].what, "gpt_analyze_cftc")

\* C15: whatever the update, and whatever its fetcher, the language model and the
\* Telegram API answer, telegram_webhook returns a response of status 200 and no
\* exception leaves it; the body has ok = false when an exception reached the
\* handler of the view and ok = true otherwise.
C15_WebhookAlways200 ==
    HookAnswered =>
        /\ ret.response.status = 200
        /\ ~IsExc(ret.response.body)
        /\ ret.response.body.ok = ~ret.internal

\* C15: an update that is not an object has raised inside the view, which has
\* answered 200 with ok = false
C15_Witness ==
    /\ ret.op = "telegram_webhook" /\ ret.internal
    /\ ret.response.status = 200 /\ ret.response.body.ok = FALSE

\* C12, as claimed: every collection that has started completes, whatever the
\* upstreams do, one that never answers included.
C12_CollectionCompletes == (run.pc # "idle") ~> (run.pc = "idle")

=============================================================================
